---- MODULE Spec2Model ----
(***************************************************************************)
(* Model of the actix-diesel-crud request handlers (src/src/handler.rs),   *)
(* the error translator (src/src/user_error.rs) and the users table they   *)
(* operate on.  Each request runs a blocking task that borrows one pooled  *)
(* connection and issues one or two SQL statements; statements of          *)
(* concurrent requests interleave at statement boundaries.                 *)
(***************************************************************************)
EXTENDS Integers, Sequences, FiniteSets, TLC

\* ------------------------------------------------------------------ bounds
MaxRequests == 2     \* requests the server receives in one behaviour
MaxStored == 2       \* rows the table holds when the server starts
PoolSize == 10       \* connections in the r2d2 pool (the builder's default max_size)

\* every request has a slot of its own: all of them can be in flight together
Slots == 1..MaxRequests
Conns == 1..PoolSize
\* public identifiers: every add_user generates at most one, and one more
\* that is never generated
Uuids == 1..(MaxStored + MaxRequests + 1)

\* ------------------------------------------------------------ input values
None == <<>>
Some(v) == <<v>>

\* Option<String>::unwrap_or_default
unwrap_or_default(o) == IF o = None THEN "" ELSE o[1]

\* bodies of POST /add
NewUserForms ==
    { [first_name |-> "Ada", last_name |-> "Lovelace", email |-> "ada@example.com"],
      [first_name |-> "Bob", last_name |-> "Byte", email |-> "bob@example.com"] }

\* bodies of POST /update/{id}: every field is optional
UpdateUserForms ==
    { [first_name |-> Some("Grace"), last_name |-> Some("Hopper"), email |-> None],
      [first_name |-> None, last_name |-> None, email |-> Some("new@example.com")] }

NoForm == [first_name |-> None, last_name |-> None, email |-> None]

\* text of the {id} path segment: the textual forms Uuid::parse_str accepts,
\* and a text that is no identifier at all
\* (of an identifier generated so far, or of one nobody was given yet)
Paths(known) ==
    { [fmt |-> f, val |-> u] : f \in {"hyphenated", "simple"}, u \in 1..(known + 1) }
    \cup { [fmt |-> "malformed", val |-> 0] }

\* Uuid::parse_str
parse_str(p) ==
    IF p.fmt \in {"hyphenated", "simple"}
    THEN [ok |-> TRUE, uuid |-> p.val]
    ELSE [ok |-> FALSE, uuid |-> 0]

\* descriptions of diesel::result::Error
DieselErrors == { "connection closed" }

\* ---------------------------------------------------------------- state
VARIABLES
    users,       \* the users table: a set of rows
    users_id_seq,\* the next value of the sequence behind the serial column users.id
    generated,   \* number of identifiers Uuid::new_v4 has produced
    pool,        \* idle connections of the pool
    req,         \* the requests in flight, per slot
    out,         \* the answer sent last, with the request it answers
    inserted,    \* history: rows in the order their INSERT executed
    writes,      \* history: per public identifier, the bodies of the UPDATEs that hit it
    removed      \* history: public identifiers whose row a DELETE removed

vars == << users, users_id_seq, generated, pool, req, out, inserted, writes, removed >>

NoResp == [status |-> 0, body |-> "none"]
NoTask == [tag |-> "none", val |-> "none"]

NoRow == [ user_id |-> 0, first_name |-> "", last_name |-> "", email |-> "",
           created_at |-> "" ]

\* pc: "idle" (not yet received), "exec" (holds a connection, its statement
\* is next), "reread" (the statement is done, the re-read is next), "done"
\* (answered), "closed" (the slot of an answered request)
Idle == [ pc |-> "idle", kind |-> "none", form |-> NoForm, conn |-> 0,
          parsed_user_id |-> 0, new_user |-> NoRow, affected |-> 0,
          task |-> NoTask, resp |-> NoResp ]

\* the row an earlier run of the server stored as its n-th
StoredBefore(n) ==
    [ id |-> n, user_id |-> n,
      first_name |-> "Linus", last_name |-> "Torvalds", email |-> "linus@example.com",
      created_at |-> "2023-12-31T23:59:59" ]

\* the table persists across runs: the server starts on the rows earlier
\* runs left, their identifiers handed out before
Init ==
    /\ \E n \in 0..MaxStored :
         /\ users = { StoredBefore(i) : i \in 1..n }
         /\ users_id_seq = n + 1
         /\ generated = n
         /\ inserted = [i \in 1..n |-> StoredBefore(i)]
    /\ pool = Conns
    /\ req = [s \in Slots |-> Idle]
    /\ out = Idle
    /\ writes = [u \in Uuids |-> {}]
    /\ removed = {}

\* --------------------------------------------------------- error translator
\* UserError variants
NotFound == [variant |-> "NotFound", detail |-> ""]
AddingUser == [variant |-> "AddingUser", detail |-> ""]
UpdatingUser == [variant |-> "UpdatingUser", detail |-> ""]
DeletingUser == [variant |-> "DeletingUser", detail |-> ""]
DieselError(e) == [variant |-> "DieselError", detail |-> e]

\* impl fmt::Display for UserError
Display(err) ==
    CASE err.variant = "NotFound" -> "User not found"
      [] err.variant = "AddingUser" -> "Error adding user"
      [] err.variant = "UpdatingUser" -> "Error updating user"
      [] err.variant = "DeletingUser" -> "Error deleting user"
      [] err.variant = "DieselError" -> "Diesel error: " \o err.detail

\* variant of error_response: every error is answered as "not found"
error_response_not_found(err) == [status |-> 404, body |-> Display(err)]

\* impl ResponseError for UserError
error_response(err) ==
    IF err.variant = "NotFound"
    THEN [status |-> 404, body |-> Display(err)]
    ELSE [status |-> 500, body |-> Display(err)]

\* -------------------------------------------------------- response envelope
GenericResponse(message, data) ==
    [status |-> "OK", message |-> message, data |-> data]

HttpOk(body) == [status |-> 200, body |-> body]

\* the fixed message of each handler's success envelope
SuccessMessage(kind) ==
    CASE kind = "get_users" -> "Users Fetched successfully"
      [] kind = "add_user" -> "Users added successfully"
      [] kind = "update_user" -> "Users updated successfully"
      [] kind = "delete_user" -> "Users Deleted successfully"

\* the error each handler's map_err closure puts in place of a failed
\* blocking task (the task panicked, so web::block returned BlockingError)
BlockingErrorOf(kind) ==
    CASE kind = "get_users" -> NotFound
      [] kind = "add_user" -> AddingUser
      [] kind = "update_user" -> UpdatingUser
      [] kind = "delete_user" -> DeletingUser

\* outcomes of the blocking task
Panicked(msg) == [tag |-> "panic", val |-> msg]
TaskOk(rows) == [tag |-> "ok", val |-> rows]
TaskErr(e) == [tag |-> "err", val |-> e]

\* the part of each handler that follows web::block(..).await:
\* map_err on the join result, then the match on the task's result
Respond(kind, task) ==
    CASE task.tag = "panic" -> error_response(BlockingErrorOf(kind))
      [] task.tag = "ok" -> HttpOk(GenericResponse(SuccessMessage(kind), task.val))
      [] task.tag = "err" -> error_response(DieselError(task.val))

\* ------------------------------------------------------------------- pool
\* get_conn_from_db: pool.get() hands out an idle connection, or fails (the
\* wait for an idle connection timed out, or the database cannot be reached)
\* Connections are interchangeable: the idle one with the highest number
\* stands for whichever the pool hands out.
get_conn_from_db ==
    { [ok |-> TRUE, conn |-> c] : c \in { i \in pool : \A o \in pool : o <= i } }
    \cup { [ok |-> FALSE, conn |-> 0] }

\* the idle connections once connection c has been handed out
Taken(c) == pool \ {c}

\* variant of Drop: the connection is forgotten, not given back
Drop_forgotten(c) == pool

\* dropping the PooledConnection gives the connection back to the pool
Drop(c) == IF c = 0 THEN pool ELSE pool \cup {c}

\* ------------------------------------------------------------ table queries
\* variant of MostRecent: the order is ascending
MostRecent_ascending(rows) ==
    IF rows = {} THEN <<>>
    ELSE << CHOOSE r \in rows : \A o \in rows : r.id <= o.id >>

\* users.order(id.desc()).limit(1).load
MostRecent(rows) ==
    IF rows = {} THEN <<>>
    ELSE << CHOOSE r \in rows : \A o \in rows : o.id <= r.id >>

\* users.load: all rows, in an order the storage engine chooses
RECURSIVE LoadOrders(_)
LoadOrders(rows) ==
    IF rows = {} THEN { <<>> }
    ELSE UNION { { <<r>> \o q : q \in LoadOrders(rows \ {r}) } : r \in rows }

\* Uuid::new_v4: the n-th identifier the generator produces (a generator of
\* 122 random bits is taken never to repeat a value)
new_v4(n) == n + 1

\* variant of NewUserRow: the public identifier is derived from the input
NewUserRow_from_input(form, n, now) ==
    [ user_id |-> IF form.first_name = "Ada" THEN 1 ELSE 2,
      first_name |-> form.first_name,
      last_name |-> form.last_name,
      email |-> form.email,
      created_at |-> now ]

\* models::Users built by add_user; id: None leaves the id to the table
NewUserRow(form, n, now) ==
    [ user_id |-> new_v4(n),
      first_name |-> form.first_name,
      last_name |-> form.last_name,
      email |-> form.email,
      created_at |-> now ]

\* variant of UpdatedUser: an omitted field stays omitted
UpdatedUser_as_sent(form) == form

\* models::UpdateUser built by update_user: every field is set
UpdatedUser(form) ==
    [ first_name |-> Some(unwrap_or_default(form.first_name)),
      last_name |-> Some(unwrap_or_default(form.last_name)),
      email |-> Some(unwrap_or_default(form.email)) ]

\* #[derive(AsChangeset)]: a field that is None is left out of the SET clause
ApplyChangeset(row, cs) ==
    [ row EXCEPT
        !.first_name = IF cs.first_name = None THEN @ ELSE cs.first_name[1],
        !.last_name = IF cs.last_name = None THEN @ ELSE cs.last_name[1],
        !.email = IF cs.email = None THEN @ ELSE cs.email[1] ]

\* ---------------------------------------------------------------- actions
Closed == [Idle EXCEPT !.pc = "closed"]

\* the blocking task of request r in slot s ends with `task`: the handler
\* answers
Answer(s, r, task) ==
    /\ out' = [r EXCEPT !.pc = "done", !.conn = 0, !.task = task,
                        !.resp = Respond(r.kind, task)]
    /\ req' = [req EXCEPT ![s] = Closed]

\* the blocking task of slot s returns `task`: its connection is dropped and
\* the handler answers
Finish(s, task) ==
    /\ pool' = Drop(req[s].conn)
    /\ Answer(s, req[s], task)

\* Local::now().naive_local(): a reading of the local wall clock (the
\* reading is stored and never looked at again)
ClockReadings == { "2024-01-01T09:00:00" }

\* a request arrives and is given the first free slot
CanDispatch(s) ==
    /\ req[s].pc = "idle"
    /\ \A o \in Slots : o < s => req[o].pc # "idle"

\* GET /get: the task starts and takes a connection
get_users_begin(s) ==
    /\ CanDispatch(s)
    /\ LET start == [Idle EXCEPT !.kind = "get_users"]
       IN \E g \in get_conn_from_db :
            IF g.ok
            THEN /\ pool' = Taken(g.conn)
                 /\ req' = [req EXCEPT ![s] = [start EXCEPT !.pc = "exec", !.conn = g.conn]]
                 /\ out' = out
            ELSE /\ pool' = pool
                 /\ Answer(s, start, Panicked("Error getting a connection from the pool"))
    /\ UNCHANGED << users, users_id_seq, generated, inserted, writes, removed >>

\* GET /get: users.load, then the answer
get_users_load(s) ==
    /\ req[s].pc = "exec" /\ req[s].kind = "get_users"
    /\ \/ \E q \in LoadOrders(users) : Finish(s, TaskOk(q))
       \/ \E e \in DieselErrors : Finish(s, TaskErr(e))
    /\ UNCHANGED << users, users_id_seq, generated, inserted, writes, removed >>

\* POST /add: the task starts, takes a connection and builds the new row
add_user_begin(s) ==
    /\ CanDispatch(s)
    /\ \E form \in NewUserForms, g \in get_conn_from_db :
         LET start == [Idle EXCEPT !.kind = "add_user", !.form = form]
         IN IF g.ok
            THEN \E now \in ClockReadings :
                 /\ generated' = generated + 1
                 /\ pool' = Taken(g.conn)
                 /\ req' = [req EXCEPT ![s] =
                              [start EXCEPT !.pc = "exec", !.conn = g.conn,
                                            !.new_user = NewUserRow(form, generated, now)]]
                 /\ out' = out
            ELSE /\ pool' = pool
                 /\ generated' = generated
                 /\ Answer(s, start, Panicked("Error getting a connection from the pool"))
    /\ UNCHANGED << users, users_id_seq, inserted, writes, removed >>

\* the row INSERT stores for new_user: the id column takes the next value of
\* its sequence
StoredRow(new_user, id) ==
    [ id |-> id,
      user_id |-> new_user.user_id,
      first_name |-> new_user.first_name,
      last_name |-> new_user.last_name,
      email |-> new_user.email,
      created_at |-> new_user.created_at ]

\* the id column is serial: the value after `last` of its sequence
nextval(last) == last + 1

\* POST /add: diesel::insert_into(users).values(&new_user).execute; a failed
\* INSERT may have used up a value of the sequence
add_user_insert(s) ==
    /\ req[s].pc = "exec" /\ req[s].kind = "add_user"
    /\ \/ /\ users' = users \cup { StoredRow(req[s].new_user, users_id_seq) }
          /\ users_id_seq' = nextval(users_id_seq)
          /\ inserted' = Append(inserted, StoredRow(req[s].new_user, users_id_seq))
          /\ req' = [req EXCEPT ![s] = [@ EXCEPT !.pc = "reread", !.affected = 1]]
          /\ UNCHANGED << pool, out >>
       \/ /\ \E e \in DieselErrors : Finish(s, TaskErr(e))
          /\ users_id_seq' \in { users_id_seq, nextval(users_id_seq) }
          /\ UNCHANGED << users, inserted >>
    /\ UNCHANGED << generated, writes, removed >>

\* POST /update/{id}: the task starts, parses the path and takes a connection
update_user_begin(s) ==
    /\ CanDispatch(s)
    /\ \E path \in Paths(generated), form \in UpdateUserForms :
         LET parsed == parse_str(path)
             start == [Idle EXCEPT !.kind = "update_user", !.form = form,
                                   !.parsed_user_id = parsed.uuid]
         IN IF ~parsed.ok
            THEN /\ pool' = pool
                 /\ Answer(s, start, Panicked("Error parsing user_id"))
            ELSE \E g \in get_conn_from_db :
                 IF g.ok
                 THEN /\ pool' = Taken(g.conn)
                      /\ req' = [req EXCEPT ![s] =
                                   [start EXCEPT !.pc = "exec", !.conn = g.conn]]
                      /\ out' = out
                 ELSE /\ pool' = pool
                      /\ Answer(s, start, Panicked("Error getting a connection from the pool"))
    /\ UNCHANGED << users, users_id_seq, generated, inserted, writes, removed >>

\* the rows users.filter(user_id.eq(parsed_user_id)) selects
Matching(rows, parsed_user_id) == { r \in rows : r.user_id = parsed_user_id }

\* variant of UpdateRows: the filter is missing
UpdateRows_unfiltered(rows, parsed_user_id, form) ==
    { ApplyChangeset(r, UpdatedUser(form)) : r \in rows }

\* the table after diesel::update(filter).set(&updated_user)
UpdateRows(rows, parsed_user_id, form) ==
    { IF r \in Matching(rows, parsed_user_id)
      THEN ApplyChangeset(r, UpdatedUser(form)) ELSE r : r \in rows }

\* POST /update/{id}: diesel::update(..).set(&updated_user).execute
update_user_update(s) ==
    /\ req[s].pc = "exec" /\ req[s].kind = "update_user"
    /\ \/ LET hit == Matching(users, req[s].parsed_user_id)
          IN /\ users' = UpdateRows(users, req[s].parsed_user_id, req[s].form)
             /\ writes' = [u \in Uuids |->
                             IF \E r \in hit : r.user_id = u
                             THEN writes[u] \cup {req[s].form} ELSE writes[u]]
             /\ req' = [req EXCEPT ![s] =
                          [@ EXCEPT !.pc = "reread", !.affected = Cardinality(hit)]]
             /\ UNCHANGED << pool, out >>
       \/ /\ \E e \in DieselErrors : Finish(s, TaskErr(e))
          /\ UNCHANGED << users, writes >>
    /\ UNCHANGED << users_id_seq, generated, inserted, removed >>

\* GET /delete/{id}: the task starts, parses the path and takes a connection
delete_user_begin(s) ==
    /\ CanDispatch(s)
    /\ \E path \in Paths(generated) :
         LET parsed == parse_str(path)
             start == [Idle EXCEPT !.kind = "delete_user", !.parsed_user_id = parsed.uuid]
         IN IF ~parsed.ok
            THEN /\ pool' = pool
                 /\ Answer(s, start, Panicked("Error parsing user_id"))
            ELSE \E g \in get_conn_from_db :
                 IF g.ok
                 THEN /\ pool' = Taken(g.conn)
                      /\ req' = [req EXCEPT ![s] =
                                   [start EXCEPT !.pc = "exec", !.conn = g.conn]]
                      /\ out' = out
                 ELSE /\ pool' = pool
                      /\ Answer(s, start, Panicked("Error getting a connection from the pool"))
    /\ UNCHANGED << users, users_id_seq, generated, inserted, writes, removed >>

\* variant of DeleteRows: the filter is missing
DeleteRows_unfiltered(rows, parsed_user_id) == {}

\* the table after diesel::delete(filter)
DeleteRows(rows, parsed_user_id) == rows \ Matching(rows, parsed_user_id)

\* GET /delete/{id}: diesel::delete(..).execute
delete_user_delete(s) ==
    /\ req[s].pc = "exec" /\ req[s].kind = "delete_user"
    /\ \/ LET hit == Matching(users, req[s].parsed_user_id)
          IN /\ users' = DeleteRows(users, req[s].parsed_user_id)
             /\ removed' = removed \cup { r.user_id : r \in hit }
             /\ req' = [req EXCEPT ![s] =
                          [@ EXCEPT !.pc = "reread", !.affected = Cardinality(hit)]]
             /\ UNCHANGED << pool, out >>
       \/ /\ \E e \in DieselErrors : Finish(s, TaskErr(e))
          /\ UNCHANGED << users, removed >>
    /\ UNCHANGED << users_id_seq, generated, inserted, writes >>

\* add_user, update_user, delete_user: the re-read that follows the
\* statement, users.order(id.desc()).limit(1).load, then the answer
reread(s) ==
    /\ req[s].pc = "reread"
    /\ \/ Finish(s, TaskOk(MostRecent(users)))
       \/ \E e \in DieselErrors : Finish(s, TaskErr(e))
    /\ UNCHANGED << users, users_id_seq, generated, inserted, writes, removed >>

Next ==
    \E s \in Slots :
       \/ get_users_begin(s)
       \/ get_users_load(s)
       \/ add_user_begin(s)
       \/ add_user_insert(s)
       \/ update_user_begin(s)
       \/ update_user_update(s)
       \/ delete_user_begin(s)
       \/ delete_user_delete(s)
       \/ reread(s)

Spec == Init /\ [][Next]_vars

\* ================================================================ properties
Answered == out.pc = "done"
InFlight(s) == req[s].pc \in {"exec", "reread"}

\* the value a field of an update request asks for
Requested(o) == IF Len(o) = 0 THEN "" ELSE Head(o)

SameNames(r, q) ==
    /\ r.first_name = q.first_name
    /\ r.last_name = q.last_name
    /\ r.email = q.email

\* slot s takes a step that sends its answer
Answers(s) == req[s].pc # "closed" /\ req'[s].pc = "closed"

\* rows is the result of "most recent row, at most one" on table
IsMostRecentOf(rows, table) ==
    IF table = {} THEN Len(rows) = 0
    ELSE /\ Len(rows) = 1
         /\ rows[1] \in table
         /\ \A o \in table : o.id <= rows[1].id

\* public identifiers of the rows inserted and not deleted since
Live == { inserted[i].user_id : i \in DOMAIN inserted } \ removed

\* ------------------------------------------------------------------- C1
\* C1: every successful add_user answer is a 200 envelope whose data is one
\* row, the row this request inserted: its public identifier is the one
\* generated for the request and its names and email are the request's.
C1_AddAnswersOwnRow ==
    (Answered /\ out.kind = "add_user" /\ out.resp.status = 200) =>
        /\ out.resp.body.status = "OK"
        /\ Len(out.resp.body.data) = 1
        /\ out.resp.body.data[1].user_id = out.new_user.user_id
        /\ SameNames(out.resp.body.data[1], out.form)

\* ------------------------------------------------------------------- C2
\* C2: an update_user or delete_user request whose path is no well-formed
\* identifier is answered with a 400-class status and leaves the table as
\* it was.
C2_MalformedIdIsClientError ==
    [][ \A s \in Slots :
          (Answers(s) /\ out'.task.tag = "panic"
                      /\ out'.task.val = "Error parsing user_id") =>
             /\ out'.resp.status \in 400..499
             /\ users' = users ]_vars

\* ------------------------------------------------------------------- C3
\* C3: a request whose blocking task failed because no connection could be
\* taken from the pool is answered with a 500-class status, never with 404.
C3_PoolFailureIs500 ==
    (Answered /\ out.task.tag = "panic"
              /\ out.task.val = "Error getting a connection from the pool") =>
        /\ out.resp.status \in 500..599
        /\ out.resp.status # 404

\* ------------------------------------------------------------------- C4
\* C4: the rows of the table have pairwise distinct public identifiers and
\* pairwise distinct surrogate identifiers; surrogate identifiers increase
\* strictly in insertion order; no identifier of a row inserted earlier,
\* deleted or not, is given to a later row; rows keep their identifiers.
C4_IdentifiersUnique ==
    /\ \A r, q \in users : r # q => (r.id # q.id /\ r.user_id # q.user_id)
    /\ \A i, j \in DOMAIN inserted :
         i < j => /\ inserted[i].id < inserted[j].id
                  /\ inserted[i].user_id # inserted[j].user_id
    /\ \A r \in users : \E i \in DOMAIN inserted :
         inserted[i].id = r.id /\ inserted[i].user_id = r.user_id
    /\ \A r \in users : r.user_id \notin removed

\* a row was deleted and rows inserted by requests are in the table
C4_Witness ==
    /\ removed # {}
    /\ \E r \in users : r.id > MaxStored
    /\ Len(inserted) >= 2

\* ------------------------------------------------------------------- C5
\* C5: a successful get_users answers 200 with status "OK" and exactly one
\* row per public identifier inserted and not deleted since (none for a
\* deleted one), which is the empty sequence when the table has no rows.
C5_ListIsLiveRows ==
    [][ \A s \in Slots :
          (Answers(s) /\ req[s].kind = "get_users" /\ req[s].pc = "exec"
                      /\ out'.task.tag = "ok") =>
             LET data == out'.resp.body.data
             IN /\ out'.resp.status = 200
                /\ out'.resp.body.status = "OK"
                /\ { data[i].user_id : i \in DOMAIN data } = Live
                /\ Len(data) = Cardinality(Live)
                /\ (users = {} => data = <<>>) ]_vars

\* a list answered after a delete removed a row, with a row left to show
C5_Witness ==
    /\ Answered /\ out.kind = "get_users" /\ out.resp.status = 200
    /\ removed # {}
    /\ Len(out.resp.body.data) >= 1

\* ------------------------------------------------------------------- C6
\* C6: the UPDATE of update_user(publicId, fields) sets first name, last
\* name and email of the row with that public identifier to the request's
\* values, the empty string for a field the request omits; the row keeps
\* its surrogate identifier, public identifier and creation timestamp;
\* every other row is unchanged; no row is added or removed.
C6_UpdateFrame ==
    [][ \A s \in Slots :
          (req[s].kind = "update_user" /\ req[s].pc = "exec" /\ req'[s].pc = "reread") =>
             LET u == req[s].parsed_user_id
                 f == req[s].form
             IN /\ \A r \in users : r.user_id # u => r \in users'
                /\ \A r \in users : r.user_id = u =>
                     [ id |-> r.id, user_id |-> r.user_id,
                       first_name |-> Requested(f.first_name),
                       last_name |-> Requested(f.last_name),
                       email |-> Requested(f.email),
                       created_at |-> r.created_at ] \in users'
                /\ Cardinality(users') = Cardinality(users) ]_vars

\* an update that left out first and last name has hit a row, next to
\* another row
C6_Witness ==
    \E s \in Slots :
       /\ req[s].kind = "update_user" /\ req[s].pc = "reread" /\ req[s].affected = 1
       /\ \E r \in users : /\ r.user_id = req[s].parsed_user_id
                           /\ r.email = "new@example.com"
                           /\ r.first_name = ""
       /\ Cardinality(users) >= 2

\* ------------------------------------------------------------------- C7
\* C7: the statement of an update_user or delete_user whose well-formed
\* identifier matches no row leaves the table unchanged; its answer is never
\* 404, and once the re-read succeeds it is the 200 envelope whose data is
\* the row with the highest surrogate identifier, or the empty sequence when
\* the table is empty; the re-read after any delete that emptied the table
\* gives the empty sequence.
C7_NoMatchSucceeds ==
    [][ \A s \in Slots :
          /\ (req[s].kind \in {"update_user", "delete_user"} /\ req[s].pc = "exec"
                /\ req'[s].pc = "reread" /\ req'[s].affected = 0) => users' = users
          /\ (req[s].kind \in {"update_user", "delete_user"} /\ req[s].pc = "reread"
                /\ Answers(s)) =>
                /\ out'.resp.status # 404
                /\ out'.task.tag = "ok" =>
                     /\ out'.resp.status = 200
                     /\ out'.resp.body.status = "OK"
                     /\ IsMostRecentOf(out'.resp.body.data, users) ]_vars

\* a delete that matched no row was answered 200 with the most recent row
C7_Witness ==
    /\ Answered /\ out.kind = "delete_user" /\ out.affected = 0
    /\ out.resp.status = 200
    /\ Len(out.resp.body.data) = 1

\* ------------------------------------------------------------------- C8
\* C8: a request one of whose statements failed in the storage layer is
\* answered 500 with the text of the storage error; status 200 and the "OK"
\* envelope are sent exactly when the task returned rows.
C8_StorageFailureIs500 ==
    Answered =>
        /\ out.task.tag = "err" =>
             /\ out.resp.status = 500
             /\ out.resp.body = "Diesel error: " \o out.task.val
        /\ out.task.tag # "ok" => out.resp.status \in {404, 500}
        /\ out.task.tag = "ok" => (out.resp.status = 200 /\ out.resp.body.status = "OK")

\* the INSERT of an add_user, or the re-read after it, failed
C8_Witness ==
    Answered /\ out.kind = "add_user" /\ out.task.tag = "err"

\* ------------------------------------------------------------------- C9
\* C9: a request holds a connection exactly while its task runs, and only
\* one; no connection is held by two requests; a connection is either held
\* or idle in the pool, so at most PoolSize are borrowed and all are back in
\* the pool once every request has completed.
Held == { req[s].conn : s \in { t \in Slots : req[t].conn # 0 } }

====
